---- MODULE Spec2Model ----
(***************************************************************************)
(* State-machine model of the video annotation tool: the App component    *)
(* (analysis store, clip playback state machine, archive save / load),    *)
(* the VideoPlayer component (pointer capture, overlay rendering, seek    *)
(* and play/pause effects) and the host objects they drive (the <video>  *)
(* element, window timers, the clock behind Date.now()).                   *)
(*                                                                         *)
(* Units.  Media times are counted in half seconds (0.5 s = 1), playback   *)
(* rates in quarters (1.0x = 4, 0.5x = 2), timer delays in milliseconds,   *)
(* normalized coordinates in percent of the canvas box.                    *)
(***************************************************************************)
EXTENDS Integers, Sequences, FiniteSets, TLC

\* ------------------------------------------------------------------ bounds
MaxItems == 2       \* annotations / clips / drawings kept per collection
MaxClock == 2       \* largest reading of the clock behind Date.now()
MaxTimers == 2      \* window.setTimeout ids handed out per page
MaxPath == 2        \* points of one pen stroke
AdvanceStep == 2    \* media time between two observations of the playing video

\* ------------------------------------------------------- program constants
Tolerance == 1          \* 0.5 s
ClipWindow == 4         \* 2 s
ClipSpeed == 2          \* 0.5x
NormalRate == 4         \* 1.0x
FastRate == 8           \* 2.0x  (an option of the playback speed select)
DefaultBrushSize == 5
ZoomScale == 200        \* scale(2.0), in percent
IdentityScale == 100    \* scale(1), in percent

\* ------------------------------------------------------------ null values
Null == "null"          \* null of string-typed state (ids, file names)
NoSeek == -1            \* null of the seek request slot (number | null)
NoTimer == 0            \* null of clipTimeoutRef; timer ids start at 1
NoSrc == <<>>           \* null of videoSrc
NoFile == [name |-> Null, bytes |-> Null]
NoClip == [id |-> Null, name |-> Null, startTime |-> 0, endTime |-> 0,
           duration |-> 0, speed |-> 0, x |-> 0, y |-> 0]

\* ----------------------------------------------------------------- inputs
\* Video files the user can pick; the media duration is a property of the bytes.
VideoA == [name |-> "a.mp4", bytes |-> "A"]
VideoB == [name |-> "b.mp4", bytes |-> "B"]
VideoFiles == {VideoA, VideoB}
MediaDuration(bytes) == IF bytes = "A" THEN 5 ELSE IF bytes = "B" THEN 3 ELSE 0
\* Bounding box of the canvas and the pointer positions tried on it.
CanvasRect == [left |-> 100, top |-> 50, width |-> 40, height |-> 20]
PointerPositions == {[clientX |-> 110, clientY |-> 65]}
PromptAnswers == {"X", "", Null}
BrushColors == {"#ff0000", "#0000ff"}
BrushSizes == {DefaultBrushSize, DefaultBrushSize + 4}
NotesTexts == {"", "n1"}
SelectableRates == {NormalRate, FastRate}

VARIABLES
  \* App state (useState / useRef)
  videoSrc, videoFileName, videoFile,
  isPlaying, currentTime, duration, playbackRate,
  toolMode, brushColor, brushSize,
  notes, drawings, annotations, clips,
  activeClipId, clipTimeoutRef, seekTimestamp,
  \* VideoPlayer state, and what the last repaint left on the overlay canvas
  isDrawing, currentPath, canvas,
  \* the <video> element, and the dependency value the play/pause effect last ran with
  vCurrentTime, vPaused, timeUpdateDue, syncedPlayState,
  \* host: pending window timers, next timer id, clock, last alert()
  timers, nextTimerId, now, notice,
  \* history: the handler, effect or host event that made the last step, and
  \* the active clip id it started from
  lastHandler, activeBefore,
  \* archive handling: the in-flight handleZipUpload call, the last saved archive
  zipLoad, saved, savedFrom

videoVars == <<videoSrc, videoFileName, videoFile>>
storeVars == <<notes, drawings, annotations, clips>>
toolVars == <<toolMode, brushColor, brushSize>>
penVars == <<isDrawing, currentPath>>
elementVars == <<vCurrentTime, vPaused, timeUpdateDue>>
timerVars == <<clipTimeoutRef, timers, nextTimerId>>
timeVars == <<currentTime, duration>>
archiveVars == <<zipLoad, saved, savedFrom, notice>>

vars == <<videoSrc, videoFileName, videoFile, isPlaying, currentTime, duration,
          playbackRate, toolMode, brushColor, brushSize, notes, drawings,
          annotations, clips, activeClipId, clipTimeoutRef, seekTimestamp,
          isDrawing, currentPath, canvas, vCurrentTime, vPaused, timeUpdateDue,
          syncedPlayState, timers, nextTimerId, now, notice, lastHandler, activeBefore, zipLoad,
          saved, savedFrom>>

\* ---------------------------------------------------------------- helpers
Min(a, b) == IF a < b THEN a ELSE b
Max(a, b) == IF a > b THEN a ELSE b
Abs(a) == IF a < 0 THEN 0 - a ELSE a

\* a test that only catches the dismissed prompt (null), not the empty label
TruthyNotNull(s) == s # Null

\* JS truthiness of a string | null
Truthy(s) == s # Null /\ s # ""

\* The duration the <video> element reports for the loaded source.
VideoDuration == IF videoSrc = NoSrc THEN 0 ELSE MediaDuration(videoSrc[2])

\* URL.createObjectURL(file)
CreateObjectURL(file) == <<"blob", file.bytes>>

\* Whether the main screen (VideoPlayer + Sidebar) is mounted; otherwise the
\* start screen with the two file inputs is.
MainScreen == videoSrc # NoSrc


\* React has committed the last handler's state and run its effects: the seek
\* request slot is empty and the play/pause effect has seen the current isPlaying.
\* Handlers and host events run only then (effects are flushed before the next event).
Settled == seekTimestamp = NoSeek /\ syncedPlayState = isPlaying

\* activeClip prop: clips.find(c => c.id === activeClipId) || null
ActiveClip ==
  IF \E i \in DOMAIN clips : clips[i].id = activeClipId
  THEN clips[CHOOSE i \in DOMAIN clips :
               /\ clips[i].id = activeClipId
               /\ \A j \in DOMAIN clips : clips[j].id = activeClipId => i <= j]
  ELSE NoClip

\* getNormalizedPos: pointer pixels to a fraction of the canvas box (in percent)
GetNormalizedPos(e) ==
  [x |-> ((e.clientX - CanvasRect.left) * 100) \div CanvasRect.width,
   y |-> ((e.clientY - CanvasRect.top) * 100) \div CanvasRect.height]

\* Date.now().toString()
DateNowString == ToString(now)

\* ---------------------------------------------------------------- overlay
\* A stored point mapped to canvas pixels: p.x * canvas.width, p.y * canvas.height
ToCanvas(p) ==
  [x |-> (p.x * CanvasRect.width) \div 100, y |-> (p.y * CanvasRect.height) \div 100]

\* The segments renderCanvas strokes for one path: a lineTo from the previous
\* point to every point but the first and, for stored drawings, but those
\* flagged isStart. `of` tells the strokes of one drawing from another's
\* (its index in drawings; 0 for the stroke in progress).
StrokeSegments(of, path, color, size, honourStart) ==
  LET idx == SelectSeq([k \in 1..Len(path) |-> k],
                       LAMBDA k : k > 1 /\ ~(honourStart /\ path[k].isStart))
  IN [j \in 1..Len(idx) |->
        [of |-> of, from |-> ToCanvas(path[idx[j] - 1]), to |-> ToCanvas(path[idx[j]]),
         strokeStyle |-> color, lineWidth |-> size]]

\* if (Math.abs(drawing.time - currentTime) < tolerance)
DrawingInWindow(d, t) == Abs(d.time - t) < Tolerance

RECURSIVE PaintDrawings(_, _, _)
PaintDrawings(ds, i, t) ==
  IF i > Len(ds) THEN <<>>
  ELSE (IF DrawingInWindow(ds[i], t)
        THEN StrokeSegments(i, ds[i].path, ds[i].color, ds[i].size, TRUE)
        ELSE <<>>) \o PaintDrawings(ds, i + 1, t)

\* renderCanvas: clear, paint the stored drawings in the window around the
\* video position t, then the stroke in progress.
RenderCanvas(ds, t, drawingNow, path) ==
  PaintDrawings(ds, 1, t) \o
    (IF drawingNow /\ Len(path) > 0
     THEN StrokeSegments(0, path, brushColor, brushSize, FALSE)
     ELSE <<>>)

\* Annotation markers: if (timeDiff > 0.5) return null
MarkerRendered(ann, t) == ~(Abs(ann.time - t) > Tolerance)

\* The markers the VideoPlayer renders at video position t.
RenderedMarkers(t) ==
  LET shown == SelectSeq(annotations, LAMBDA a : MarkerRendered(a, t))
  IN [j \in 1..Len(shown) |->
        [key |-> shown[j].id, left |-> shown[j].x, top |-> shown[j].y,
         backgroundColor |-> shown[j].color, text |-> shown[j].text]]

\* transformStyle of the video surface: [scale in percent, transform origin]
TransformStyle ==
  IF ActiveClip # NoClip
  THEN [scale |-> ZoomScale, origin |-> <<ActiveClip.x, ActiveClip.y>>]
  ELSE [scale |-> IdentityScale, origin |-> <<50, 50>>]

\* resizeCanvas: the window "resize" listener, also run 100 ms after the
\* overlay's inputs change; repaints the canvas.
ResizeCanvas ==
  /\ lastHandler' = "ResizeCanvas" /\ activeBefore' = activeClipId
  /\ Settled /\ MainScreen
  /\ canvas' = RenderCanvas(drawings, vCurrentTime, isDrawing, currentPath)
  /\ UNCHANGED <<videoVars, isPlaying, timeVars, playbackRate, toolVars, storeVars,
                 activeClipId, seekTimestamp, timerVars, penVars, elementVars,
                 syncedPlayState, now, archiveVars>>

\* ------------------------------------------------------------------- Init
Init ==
  /\ videoSrc = NoSrc /\ videoFileName = Null /\ videoFile = NoFile
  /\ isPlaying = FALSE /\ currentTime = 0 /\ duration = 0
  /\ playbackRate = NormalRate
  /\ toolMode = "point" /\ brushColor = "#ff0000" /\ brushSize = DefaultBrushSize
  /\ notes = "" /\ drawings = <<>> /\ annotations = <<>> /\ clips = <<>>
  /\ activeClipId = Null /\ clipTimeoutRef = NoTimer /\ seekTimestamp = NoSeek
  /\ isDrawing = FALSE /\ currentPath = <<>> /\ canvas = <<>>
  /\ vCurrentTime = 0 /\ vPaused = TRUE /\ timeUpdateDue = FALSE
  /\ syncedPlayState = FALSE
  /\ timers = {} /\ nextTimerId = 1
  /\ now = 1
  /\ notice = Null
  /\ lastHandler = "load" /\ activeBefore = Null
  /\ zipLoad = [pc |-> "idle", zip |-> [ok |-> FALSE, entries |-> <<>>]]   \* no call in flight
  /\ saved = <<>> /\ savedFrom = <<>>

\* ------------------------------------------------------------ host events
\* The clock behind Date.now() advances.
ClockTick ==
  /\ lastHandler' = "ClockTick" /\ activeBefore' = activeClipId
  /\ Settled
  /\ now < MaxClock
  /\ now' = now + 1
  /\ UNCHANGED <<canvas, videoVars, isPlaying, timeVars, playbackRate, toolVars, storeVars,
                 activeClipId, seekTimestamp, timerVars, penVars, elementVars,
                 syncedPlayState, archiveVars>>

\* The playing video advances (up to the end of the media).
VideoAdvance ==
  /\ lastHandler' = "VideoAdvance" /\ activeBefore' = activeClipId
  /\ Settled
  /\ MainScreen /\ ~vPaused /\ vCurrentTime < VideoDuration
  /\ vCurrentTime' = Min(vCurrentTime + AdvanceStep, VideoDuration)
  /\ timeUpdateDue' = TRUE
  /\ UNCHANGED <<canvas, videoVars, isPlaying, timeVars, playbackRate, toolVars, storeVars,
                 activeClipId, seekTimestamp, timerVars, penVars, vPaused,
                 syncedPlayState, now, archiveVars>>

\* The playing video reaches its end: the element pauses itself and fires
\* "ended"; onEnded={() => setExternalPlayState(false)}.
VideoEnded ==
  /\ lastHandler' = "VideoEnded" /\ activeBefore' = activeClipId
  /\ Settled
  /\ MainScreen /\ ~vPaused /\ vCurrentTime = VideoDuration
  /\ vPaused' = TRUE
  /\ timeUpdateDue' = TRUE
  /\ isPlaying' = FALSE
  /\ UNCHANGED <<canvas, videoVars, timeVars, playbackRate, toolVars, storeVars,
                 activeClipId, seekTimestamp, timerVars, penVars, vCurrentTime,
                 syncedPlayState, now, archiveVars>>

\* handleTimeUpdate -> onVideoTimeUpdate(curr, dur), the only writer of
\* duration; then renderCanvas().
HandleTimeUpdate ==
  /\ lastHandler' = "HandleTimeUpdate" /\ activeBefore' = activeClipId
  /\ Settled
  /\ MainScreen /\ timeUpdateDue
  /\ currentTime' = vCurrentTime
  /\ duration' = VideoDuration
  /\ timeUpdateDue' = FALSE
  /\ canvas' = RenderCanvas(drawings, vCurrentTime, isDrawing, currentPath)
  /\ UNCHANGED <<videoVars, isPlaying, playbackRate, toolVars, storeVars,
                 activeClipId, seekTimestamp, timerVars, penVars, vCurrentTime, vPaused,
                 syncedPlayState, now, archiveVars>>

\* ---------------------------------------------------------------- effects
\* useEffect [seekTimestamp]: video.currentTime = seekTimestamp; onSeekComplete()
\* (setSeekTimestamp(null)). The element clamps the position to [0, duration].
SeekEffect ==
  /\ lastHandler' = "SeekEffect" /\ activeBefore' = activeClipId
  /\ seekTimestamp # NoSeek
  /\ MainScreen
  /\ vCurrentTime' = Max(0, Min(seekTimestamp, VideoDuration))
  /\ timeUpdateDue' = TRUE
  /\ seekTimestamp' = NoSeek
  /\ UNCHANGED <<canvas, videoVars, isPlaying, timeVars, playbackRate, toolVars, storeVars,
                 activeClipId, timerVars, penVars, vPaused,
                 syncedPlayState, now, archiveVars>>

\* useEffect [externalPlayState]: play() a paused element when the state says
\* playing, pause() a playing one when it says paused. play() on an element
\* that has ended restarts it from the earliest position.
PlaySyncEffect ==
  /\ lastHandler' = "PlaySyncEffect" /\ activeBefore' = activeClipId
  /\ seekTimestamp = NoSeek
  /\ syncedPlayState # isPlaying
  /\ syncedPlayState' = isPlaying
  /\ IF MainScreen /\ isPlaying /\ vPaused
     THEN /\ vPaused' = FALSE
          /\ vCurrentTime' = IF vCurrentTime = VideoDuration THEN 0 ELSE vCurrentTime
          /\ timeUpdateDue' = (timeUpdateDue \/ vCurrentTime = VideoDuration)
     ELSE IF MainScreen /\ ~isPlaying /\ ~vPaused
     THEN /\ vPaused' = TRUE
          /\ UNCHANGED <<vCurrentTime, timeUpdateDue>>
     ELSE UNCHANGED <<vCurrentTime, vPaused, timeUpdateDue>>
  /\ UNCHANGED <<canvas, videoVars, isPlaying, timeVars, playbackRate, toolVars, storeVars,
                 activeClipId, seekTimestamp, timerVars, penVars, now, archiveVars>>

\* ------------------------------------------------------- player controls
\* play / pause button: setExternalPlayState(!externalPlayState)
TogglePlay ==
  /\ lastHandler' = "TogglePlay" /\ activeBefore' = activeClipId
  /\ Settled /\ MainScreen
  /\ isPlaying' = ~isPlaying
  /\ UNCHANGED <<canvas, videoVars, timeVars, playbackRate, toolVars, storeVars,
                 activeClipId, seekTimestamp, timerVars, penVars, elementVars,
                 syncedPlayState, now, archiveVars>>

\* a speed select that stays enabled while a clip is active
SelectPlaybackRateEnabled(r) ==
  /\ lastHandler' = "SelectPlaybackRate" /\ activeBefore' = activeClipId
  /\ Settled /\ MainScreen
  /\ playbackRate' = r
  /\ UNCHANGED <<canvas, videoVars, isPlaying, timeVars, toolVars, storeVars,
                 activeClipId, seekTimestamp, timerVars, penVars, elementVars,
                 syncedPlayState, now, archiveVars>>

\* playback speed select (disabled={!!activeClipId})
SelectPlaybackRate(r) ==
  /\ lastHandler' = "SelectPlaybackRate" /\ activeBefore' = activeClipId
  /\ Settled /\ MainScreen
  /\ activeClipId = Null
  /\ playbackRate' = r
  /\ UNCHANGED <<canvas, videoVars, isPlaying, timeVars, toolVars, storeVars,
                 activeClipId, seekTimestamp, timerVars, penVars, elementVars,
                 syncedPlayState, now, archiveVars>>

OnModeChange(m) ==
  /\ lastHandler' = "OnModeChange" /\ activeBefore' = activeClipId
  /\ Settled /\ MainScreen
  /\ toolMode' = m
  /\ UNCHANGED <<canvas, videoVars, isPlaying, timeVars, playbackRate, brushColor, brushSize,
                 storeVars, activeClipId, seekTimestamp, timerVars, penVars,
                 elementVars, syncedPlayState, now, archiveVars>>

SetBrushColor(c) ==
  /\ lastHandler' = "SetBrushColor" /\ activeBefore' = activeClipId
  /\ Settled /\ MainScreen
  /\ brushColor' = c
  /\ UNCHANGED <<canvas, videoVars, isPlaying, timeVars, playbackRate, toolMode, brushSize,
                 storeVars, activeClipId, seekTimestamp, timerVars, penVars,
                 elementVars, syncedPlayState, now, archiveVars>>

SetBrushSize(n) ==
  /\ lastHandler' = "SetBrushSize" /\ activeBefore' = activeClipId
  /\ Settled /\ MainScreen
  /\ brushSize' = n
  /\ UNCHANGED <<canvas, videoVars, isPlaying, timeVars, playbackRate, toolMode, brushColor,
                 storeVars, activeClipId, seekTimestamp, timerVars, penVars,
                 elementVars, syncedPlayState, now, archiveVars>>

SetNotes(t) ==
  /\ lastHandler' = "SetNotes" /\ activeBefore' = activeClipId
  /\ Settled /\ MainScreen
  /\ notes' = t
  /\ UNCHANGED <<canvas, videoVars, isPlaying, timeVars, playbackRate, toolVars,
                 drawings, annotations, clips, activeClipId, seekTimestamp, timerVars,
                 penVars, elementVars, syncedPlayState, now, archiveVars>>

\* ---------------------------------------------------------------- capture
\* The Annotation handleAddAnnotation appends.
NewAnnotation(id, x, y, time, text) ==
  [id |-> id, x |-> x, y |-> y, time |-> time, text |-> text, color |-> brushColor]

\* clipEnd = Math.min(time + 2, duration), with the App's duration state
ClipEnd(time) == Min(time + ClipWindow, duration)

\* The companion Clip handleAddAnnotation appends.
NewClip(id, x, y, time, text) ==
  [id |-> id, name |-> text, startTime |-> time, endTime |-> ClipEnd(time),
   duration |-> ClipEnd(time) - time, speed |-> ClipSpeed, x |-> x, y |-> y]

\* handleStart on the canvas. Point mode calls onAddAnnotation ->
\* handleAddAnnotation(x, y, video.currentTime), which prompts for the label
\* (answer `text`) and returns when it is empty or the prompt was dismissed.
\* Pen mode begins a stroke.
HandleStart(e, text) ==
  /\ lastHandler' = "HandleStart" /\ activeBefore' = activeClipId
  /\ Settled /\ MainScreen
  /\ ActiveClip = NoClip
  /\ LET pos == GetNormalizedPos(e)
         id == DateNowString
     IN IF toolMode = "point"
        THEN /\ Len(annotations) < MaxItems /\ Len(clips) < MaxItems
             /\ IF Truthy(text)
                THEN /\ annotations' =
                          Append(annotations, NewAnnotation(id, pos.x, pos.y, vCurrentTime, text))
                     /\ clips' = Append(clips, NewClip(id, pos.x, pos.y, vCurrentTime, text))
                ELSE UNCHANGED <<annotations, clips>>
             /\ UNCHANGED penVars
        ELSE /\ Len(drawings) < MaxItems
             /\ text = Null            \* no prompt is shown in pen mode
             /\ isDrawing' = TRUE
             /\ currentPath' = <<[x |-> pos.x, y |-> pos.y, isStart |-> TRUE]>>
             /\ UNCHANGED <<annotations, clips>>
  /\ UNCHANGED <<canvas, videoVars, isPlaying, timeVars, playbackRate, toolVars, notes, drawings,
                 activeClipId, seekTimestamp, timerVars, elementVars,
                 syncedPlayState, now, archiveVars>>

\* handleMove: extends the stroke in progress and repaints.
HandleMove(e) ==
  /\ lastHandler' = "HandleMove" /\ activeBefore' = activeClipId
  /\ Settled /\ MainScreen
  /\ isDrawing /\ toolMode = "pen" /\ ActiveClip = NoClip
  /\ Len(currentPath) < MaxPath
  /\ LET pos == GetNormalizedPos(e)
     IN currentPath' = Append(currentPath, [x |-> pos.x, y |-> pos.y, isStart |-> FALSE])
  /\ canvas' = RenderCanvas(drawings, vCurrentTime, isDrawing, currentPath')
  /\ UNCHANGED <<videoVars, isPlaying, timeVars, playbackRate, toolVars, storeVars,
                 activeClipId, seekTimestamp, timerVars, isDrawing, elementVars,
                 syncedPlayState, now, archiveVars>>

\* The Drawing handleEnd commits.
NewDrawing ==
  [id |-> DateNowString, time |-> vCurrentTime, color |-> brushColor,
   size |-> brushSize, path |-> currentPath]

\* handleEnd that commits every non-empty stroke, a single point included
HandleEndCommitAny ==
  /\ lastHandler' = "HandleEnd" /\ activeBefore' = activeClipId
  /\ Settled /\ MainScreen
  /\ isDrawing /\ toolMode = "pen"
  /\ isDrawing' = FALSE
  /\ drawings' = IF Len(currentPath) > 0 THEN Append(drawings, NewDrawing) ELSE drawings
  /\ currentPath' = <<>>
  /\ UNCHANGED <<canvas, videoVars, isPlaying, timeVars, playbackRate, toolVars, notes,
                 annotations, clips, activeClipId, seekTimestamp, timerVars, elementVars,
                 syncedPlayState, now, archiveVars>>

\* handleEnd (mouseup, mouseleave, touchend): commits a stroke of more than one point.
HandleEnd ==
  /\ lastHandler' = "HandleEnd" /\ activeBefore' = activeClipId
  /\ Settled /\ MainScreen
  /\ isDrawing /\ toolMode = "pen"
  /\ isDrawing' = FALSE
  /\ drawings' = IF Len(currentPath) > 1 THEN Append(drawings, NewDrawing) ELSE drawings
  /\ currentPath' = <<>>
  /\ UNCHANGED <<canvas, videoVars, isPlaying, timeVars, playbackRate, toolVars, notes,
                 annotations, clips, activeClipId, seekTimestamp, timerVars, elementVars,
                 syncedPlayState, now, archiveVars>>

\* ------------------------------------------------------ clip state machine
\* a timeout that forgets the time dilation by clip.speed
DurationMsUndilated(clip) == (clip.endTime - clip.startTime) * 500

\* durationMs = ((clip.endTime - clip.startTime) / clip.speed) * 1000
DurationMs(clip) == ((clip.endTime - clip.startTime) * 2000) \div clip.speed

\* a stop that leaves the pending timer armed
ClearClipTimeoutNever(T) == T

\* if (clipTimeoutRef.current) clearTimeout(clipTimeoutRef.current), on the pending timers T
ClearClipTimeout(T) ==
  IF clipTimeoutRef # NoTimer THEN {t \in T : t.id # clipTimeoutRef} ELSE T

\* playClip that arms the new timer without clearing the previous one
PlayClipTimersKeepOld(clip) ==
  timers \cup {[id |-> nextTimerId, delay |-> DurationMs(clip), clip |-> clip.id]}

\* playClip that forgets to arm the auto-stop timer
PlayClipTimersNone(clip) == {}

\* The timers pending after playClip(clip): the one clipTimeoutRef names is
\* cleared, and window.setTimeout(() => stopClip(), durationMs) arms a new one.
\* `clip` remembers the clip the timer was armed for.
PlayClipTimers(clip) ==
  ClearClipTimeout(timers) \cup
    {[id |-> nextTimerId, delay |-> DurationMs(clip), clip |-> clip.id]}

\* playClip(clip), from the Play button of a clip that is not the active one
PlayClip(clip) ==
  /\ lastHandler' = "PlayClip" /\ activeBefore' = activeClipId
  /\ Settled /\ MainScreen
  /\ clip.id # activeClipId
  /\ nextTimerId <= MaxTimers
  /\ activeClipId' = clip.id
  /\ playbackRate' = clip.speed
  /\ seekTimestamp' = clip.startTime
  /\ isPlaying' = TRUE
  /\ timers' = PlayClipTimers(clip)
  /\ clipTimeoutRef' = nextTimerId
  /\ nextTimerId' = nextTimerId + 1
  /\ UNCHANGED <<canvas, videoVars, timeVars, toolVars, storeVars, penVars, elementVars,
                 syncedPlayState, now, archiveVars>>

\* stopClip that does not reset the playback rate
StopClipUpdateKeepRate(T) ==
  /\ timers' = ClearClipTimeout(T)
  /\ activeClipId' = Null
  /\ isPlaying' = FALSE
  /\ UNCHANGED playbackRate

\* The state stopClip() leaves, T being the timers pending when it runs.
StopClipUpdate(T) ==
  /\ timers' = ClearClipTimeout(T)
  /\ activeClipId' = Null
  /\ isPlaying' = FALSE
  /\ playbackRate' = NormalRate

\* stopClip(), from the Stop button of the active clip
StopClip ==
  /\ lastHandler' = "StopClip" /\ activeBefore' = activeClipId
  /\ Settled /\ MainScreen
  /\ ActiveClip # NoClip
  /\ StopClipUpdate(timers)
  /\ UNCHANGED <<canvas, videoVars, timeVars, toolVars, storeVars, seekTimestamp,
                 clipTimeoutRef, nextTimerId, penVars, elementVars,
                 syncedPlayState, now, archiveVars>>

\* The one-shot timer armed by playClip fires: () => { stopClip(); }
TimerFire(t) ==
  /\ lastHandler' = "TimerFire" /\ activeBefore' = activeClipId
  /\ Settled
  /\ t \in timers
  /\ StopClipUpdate(timers \ {t})
  /\ UNCHANGED <<canvas, videoVars, timeVars, toolVars, storeVars, seekTimestamp,
                 clipTimeoutRef, nextTimerId, penVars, elementVars,
                 syncedPlayState, now, archiveVars>>

\* onDeleteClip that filters the clip out without stopping it when it is active
OnDeleteClipNoStop(id) ==
  /\ lastHandler' = "OnDeleteClip" /\ activeBefore' = activeClipId
  /\ Settled /\ MainScreen
  /\ \E i \in DOMAIN clips : clips[i].id = id
  /\ clips' = SelectSeq(clips, LAMBDA c : c.id # id)
  /\ UNCHANGED <<canvas, videoVars, isPlaying, playbackRate, activeClipId, timeVars,
                 toolVars, notes, drawings, annotations, seekTimestamp, timerVars,
                 penVars, elementVars, syncedPlayState, now, archiveVars>>

\* onDeleteClip(id): if (activeClipId === id) stopClip(); then filter the clip out
OnDeleteClip(id) ==
  /\ lastHandler' = "OnDeleteClip" /\ activeBefore' = activeClipId
  /\ Settled /\ MainScreen
  /\ \E i \in DOMAIN clips : clips[i].id = id
  /\ IF activeClipId = id
     THEN StopClipUpdate(timers)
     ELSE UNCHANGED <<timers, activeClipId, isPlaying, playbackRate>>
  /\ clips' = SelectSeq(clips, LAMBDA c : c.id # id)
  /\ UNCHANGED <<canvas, videoVars, timeVars, toolVars, notes, drawings, annotations,
                 seekTimestamp, clipTimeoutRef, nextTimerId, penVars, elementVars,
                 syncedPlayState, now, archiveVars>>

\* onDeleteAnnotation(id)
OnDeleteAnnotation(id) ==
  /\ lastHandler' = "OnDeleteAnnotation" /\ activeBefore' = activeClipId
  /\ Settled /\ MainScreen
  /\ \E i \in DOMAIN annotations : annotations[i].id = id
  /\ annotations' = SelectSeq(annotations, LAMBDA a : a.id # id)
  /\ UNCHANGED <<canvas, videoVars, isPlaying, timeVars, playbackRate, toolVars, notes,
                 drawings, clips, activeClipId, seekTimestamp, timerVars, penVars,
                 elementVars, syncedPlayState, now, archiveVars>>

\* onClearAll, the confirm() answered OK
OnClearAll ==
  /\ lastHandler' = "OnClearAll" /\ activeBefore' = activeClipId
  /\ Settled /\ MainScreen
  /\ drawings' = <<>> /\ annotations' = <<>> /\ clips' = <<>>
  /\ UNCHANGED <<canvas, videoVars, isPlaying, timeVars, playbackRate, toolVars, notes,
                 activeClipId, seekTimestamp, timerVars, penVars,
                 elementVars, syncedPlayState, now, archiveVars>>

\* ------------------------------------------------------- video and archive
\* loadVideoFile(file): new source, and the analysis data reset. The <video>
\* element starts the new source paused at position 0.
LoadVideoFile(file) ==
  /\ videoSrc' = CreateObjectURL(file)
  /\ videoFileName' = file.name
  /\ videoFile' = file
  /\ drawings' = <<>> /\ annotations' = <<>> /\ clips' = <<>>
  /\ notes' = ""
  /\ vCurrentTime' = 0 /\ vPaused' = TRUE /\ timeUpdateDue' = FALSE

\* handleVideoUpload: the "Load Video" input of the start screen
HandleVideoUpload(file) ==
  /\ lastHandler' = "HandleVideoUpload" /\ activeBefore' = activeClipId
  /\ Settled /\ ~MainScreen
  /\ LoadVideoFile(file)
  /\ UNCHANGED <<canvas, isPlaying, timeVars, playbackRate, toolVars, activeClipId,
                 seekTimestamp, timerVars, penVars, syncedPlayState, now, archiveVars>>

\* JSON.stringify(data): the members in the order the object literal lists them
JsonStringify(data) ==
  << <<"notes", data.notes>>, <<"drawings", data.drawings>>,
     <<"annotations", data.annotations>>, <<"clips", data.clips>>,
     <<"primaryVideoFileName", data.primaryVideoFileName>> >>

JsonHas(text, key) == \E i \in DOMAIN text : text[i][1] = key
JsonGet(text, key) == text[CHOOSE i \in DOMAIN text : text[i][1] = key][2]

\* JSON.parse(text) throws on text that is no JSON document (here: the empty text)
JsonParseThrows(text) == text = <<>>

\* JSON.parse(text) as AnalysisData; an absent member reads as undefined
JsonParse(text) ==
  [notes |-> JsonGet(text, "notes"),
   drawings |-> JsonGet(text, "drawings"),
   annotations |-> JsonGet(text, "annotations"),
   clips |-> JsonGet(text, "clips"),
   primaryVideoFileName |->
     IF JsonHas(text, "primaryVideoFileName") THEN JsonGet(text, "primaryVideoFileName")
     ELSE Null]

\* Archive entries: text written with zip.file(name, string), or a File's bytes.
TextEntry(name, text) == [name |-> name, text |-> text, bytes |-> "text"]
BlobEntry(name, bytes) == [name |-> name, text |-> <<>>, bytes |-> bytes]

\* zip.file(name, data): adds the entry, replacing one of the same name
ZipPut(entries, entry) ==
  Append(SelectSeq(entries, LAMBDA x : x.name # entry.name), entry)

\* zip.file(name): the entry, or null
ZipHas(zip, name) == \E i \in DOMAIN zip.entries : zip.entries[i].name = name
ZipFile(zip, name) ==
  zip.entries[CHOOSE i \in DOMAIN zip.entries : zip.entries[i].name = name]

JsonEntryName == "analysis_data.json"
FailedNotice == "Failed to load analysis file."
\* the missing-video case reported with the generic alert
MissingVideoNoticeGeneric == FailedNotice
MissingVideoNotice == "Analysis loaded, but the video file was missing in the archive."

\* The archive saveAnalysis builds from the current state.
SavedZip ==
  LET name == IF Truthy(videoFileName) THEN videoFileName ELSE "video.mp4"
      data == [notes |-> notes, drawings |-> drawings, annotations |-> annotations,
               clips |-> clips, primaryVideoFileName |-> name]
  IN [ok |-> TRUE,
      entries |-> ZipPut(ZipPut(<<>>, TextEntry(JsonEntryName, JsonStringify(data))),
                         BlobEntry(name, videoFile.bytes))]

\* saveAnalysis: the "Save Analysis (.zip)" button; the archive lands on disk.
\* savedFrom remembers the state the archive was produced from.
SaveAnalysis ==
  /\ lastHandler' = "SaveAnalysis" /\ activeBefore' = activeClipId
  /\ Settled /\ MainScreen
  /\ videoFile # NoFile
  /\ saved' = <<SavedZip>>
  /\ savedFrom' = <<[notes |-> notes, drawings |-> drawings, annotations |-> annotations,
                     clips |-> clips, videoFile |-> videoFile]>>
  /\ UNCHANGED <<canvas, videoVars, isPlaying, timeVars, playbackRate, toolVars, storeVars,
                 activeClipId, seekTimestamp, timerVars, penVars, elementVars,
                 syncedPlayState, now, notice, zipLoad>>

\* Archives not produced by Save that the user may pick.
SampleAnnotation == [id |-> "1", x |-> 25, y |-> 75, time |-> 1, text |-> "X",
                     color |-> "#ff0000"]
SampleClip == [id |-> "1", name |-> "X", startTime |-> 1, endTime |-> 3,
               duration |-> 2, speed |-> ClipSpeed, x |-> 25, y |-> 75]
SampleData == [notes |-> "n1", drawings |-> <<>>, annotations |-> <<SampleAnnotation>>,
               clips |-> <<SampleClip>>, primaryVideoFileName |-> "a.mp4"]
CorruptZip == [ok |-> FALSE, entries |-> <<>>]
NoJsonZip == [ok |-> TRUE, entries |-> <<BlobEntry("a.mp4", "A")>>]
BadJsonZip == [ok |-> TRUE,
               entries |-> <<TextEntry(JsonEntryName, <<>>), BlobEntry("a.mp4", "A")>>]
MissingVideoZip == [ok |-> TRUE,
                    entries |-> <<TextEntry(JsonEntryName, JsonStringify(SampleData))>>]
NoVideoNameZip ==
  [ok |-> TRUE,
   entries |-> <<TextEntry(JsonEntryName,
                           SelectSeq(JsonStringify(SampleData),
                                     LAMBDA m : m[1] # "primaryVideoFileName"))>>]

\* The files the user may pick in the "Load Analysis" input: one of the
\* archives above, or the archive Save last wrote.
ZipChoices == {"corrupt", "noJson", "badJson", "missingVideo", "noVideoName", "saved"}
PickedZip(k) ==
  CASE k = "corrupt" -> CorruptZip
    [] k = "noJson" -> NoJsonZip
    [] k = "badJson" -> BadJsonZip
    [] k = "missingVideo" -> MissingVideoZip
    [] k = "noVideoName" -> NoVideoNameZip
    [] k = "saved" -> saved[1]

\* handleZipUpload, up to its first await: JSZip.loadAsync(file) is started.
\* One call is in flight at a time.
HandleZipUpload(k) ==
  /\ lastHandler' = "HandleZipUpload" /\ activeBefore' = activeClipId
  /\ Settled /\ ~MainScreen
  /\ zipLoad.pc \in {"idle", "done"}
  /\ k = "saved" => saved # <<>>
  /\ zipLoad' = [pc |-> "loadAsync", zip |-> PickedZip(k)]
  /\ notice' = Null
  /\ UNCHANGED <<canvas, videoVars, isPlaying, timeVars, playbackRate, toolVars, storeVars,
                 activeClipId, seekTimestamp, timerVars, penVars, elementVars,
                 syncedPlayState, now, saved, savedFrom>>

\* JSZip.loadAsync settles: it rejects for a file that is no archive (catch:
\* alert); a missing analysis_data.json entry ends the call; otherwise the
\* entry is read (second await).
ZipLoaded ==
  /\ lastHandler' = "ZipLoaded" /\ activeBefore' = activeClipId
  /\ Settled
  /\ zipLoad.pc = "loadAsync"
  /\ IF ~zipLoad.zip.ok
     THEN /\ notice' = FailedNotice
          /\ zipLoad' = [zipLoad EXCEPT !.pc = "done"]
     ELSE IF ~ZipHas(zipLoad.zip, JsonEntryName)
     THEN /\ zipLoad' = [zipLoad EXCEPT !.pc = "done"]
          /\ UNCHANGED notice
     ELSE /\ zipLoad' = [zipLoad EXCEPT !.pc = "readJson"]
          /\ UNCHANGED notice
  /\ UNCHANGED <<canvas, videoVars, isPlaying, timeVars, playbackRate, toolVars, storeVars,
                 activeClipId, seekTimestamp, timerVars, penVars, elementVars,
                 syncedPlayState, now, saved, savedFrom>>

\* a load that empties the store before it parses the entry
ZipJsonReadClearFirst ==
  /\ lastHandler' = "ZipJsonRead" /\ activeBefore' = activeClipId
  /\ Settled
  /\ zipLoad.pc = "readJson"
  /\ LET text == ZipFile(zipLoad.zip, JsonEntryName).text
     IN IF JsonParseThrows(text)
        THEN /\ notice' = FailedNotice
             /\ zipLoad' = [zipLoad EXCEPT !.pc = "done"]
             /\ notes' = "" /\ drawings' = <<>> /\ annotations' = <<>> /\ clips' = <<>>
        ELSE /\ notes' = JsonParse(text).notes
             /\ drawings' = JsonParse(text).drawings
             /\ annotations' = JsonParse(text).annotations
             /\ clips' = JsonParse(text).clips
             /\ zipLoad' = [zipLoad EXCEPT !.pc =
                              IF Truthy(JsonParse(text).primaryVideoFileName)
                              THEN "readVideo" ELSE "done"]
             /\ UNCHANGED notice
  /\ UNCHANGED <<canvas, videoVars, isPlaying, timeVars, playbackRate, toolVars,
                 activeClipId, seekTimestamp, timerVars, penVars, elementVars,
                 syncedPlayState, now, saved, savedFrom>>

\* The JSON entry has been read: JSON.parse (a throw is caught: alert), then
\* setNotes / setDrawings / setAnnotations / setClips, then the video entry is
\* read when the data names one (third await).
ZipJsonRead ==
  /\ lastHandler' = "ZipJsonRead" /\ activeBefore' = activeClipId
  /\ Settled
  /\ zipLoad.pc = "readJson"
  /\ LET text == ZipFile(zipLoad.zip, JsonEntryName).text
     IN IF JsonParseThrows(text)
        THEN /\ notice' = FailedNotice
             /\ zipLoad' = [zipLoad EXCEPT !.pc = "done"]
             /\ UNCHANGED storeVars
        ELSE /\ notes' = JsonParse(text).notes
             /\ drawings' = JsonParse(text).drawings
             /\ annotations' = JsonParse(text).annotations
             /\ clips' = JsonParse(text).clips
             /\ zipLoad' = [zipLoad EXCEPT !.pc =
                              IF Truthy(JsonParse(text).primaryVideoFileName)
                              THEN "readVideo" ELSE "done"]
             /\ UNCHANGED notice
  /\ UNCHANGED <<canvas, videoVars, isPlaying, timeVars, playbackRate, toolVars,
                 activeClipId, seekTimestamp, timerVars, penVars, elementVars,
                 syncedPlayState, now, saved, savedFrom>>

\* The video entry has been read: loadVideoFile(new File([blob], name)), or
\* the "video file was missing" alert when the archive has no such entry.
ZipVideoRead ==
  /\ lastHandler' = "ZipVideoRead" /\ activeBefore' = activeClipId
  /\ Settled
  /\ zipLoad.pc = "readVideo"
  /\ zipLoad' = [zipLoad EXCEPT !.pc = "done"]
  /\ LET name == JsonParse(ZipFile(zipLoad.zip, JsonEntryName).text).primaryVideoFileName
     IN IF ZipHas(zipLoad.zip, name)
        THEN /\ LoadVideoFile([name |-> name, bytes |-> ZipFile(zipLoad.zip, name).bytes])
             /\ UNCHANGED notice
        ELSE /\ notice' = MissingVideoNotice
             /\ UNCHANGED <<videoVars, storeVars, elementVars>>
  /\ UNCHANGED <<canvas, isPlaying, timeVars, playbackRate, toolVars, activeClipId,
                 seekTimestamp, timerVars, penVars, syncedPlayState, now,
                 saved, savedFrom>>

\* onReset: window.location.reload(). The page starts over; timers and the
\* in-flight load die with it; files on disk and the clock are the host's.
OnReset ==
  /\ lastHandler' = "OnReset" /\ activeBefore' = activeClipId
  /\ Settled /\ MainScreen
  /\ videoSrc' = NoSrc /\ videoFileName' = Null /\ videoFile' = NoFile
  /\ isPlaying' = FALSE /\ currentTime' = 0 /\ duration' = 0
  /\ playbackRate' = NormalRate
  /\ toolMode' = "point" /\ brushColor' = "#ff0000" /\ brushSize' = DefaultBrushSize
  /\ notes' = "" /\ drawings' = <<>> /\ annotations' = <<>> /\ clips' = <<>>
  /\ activeClipId' = Null /\ clipTimeoutRef' = NoTimer /\ seekTimestamp' = NoSeek
  /\ isDrawing' = FALSE /\ currentPath' = <<>> /\ canvas' = <<>>
  /\ vCurrentTime' = 0 /\ vPaused' = TRUE /\ timeUpdateDue' = FALSE
  /\ syncedPlayState' = FALSE
  /\ timers' = {} /\ nextTimerId' = 1
  /\ notice' = Null
  /\ zipLoad' = [pc |-> "idle", zip |-> CorruptZip]
  /\ UNCHANGED <<now, saved, savedFrom>>

\* ------------------------------------------------------------------- Next
\* Host events and effects of a page with a video loaded.
PlaybackNext ==
  \/ ClockTick
  \/ VideoAdvance
  \/ VideoEnded
  \/ HandleTimeUpdate
  \/ SeekEffect
  \/ PlaySyncEffect
  \/ TogglePlay

\* Point-mode capture and the clip state machine.
ClipNext ==
  \/ \E r \in SelectableRates : SelectPlaybackRate(r)
  \/ \E e \in PointerPositions, text \in PromptAnswers : HandleStart(e, text)
  \/ \E i \in DOMAIN clips : PlayClip(clips[i])
  \/ StopClip
  \/ \E t \in timers : TimerFire(t)
  \/ \E i \in DOMAIN clips : OnDeleteClip(clips[i].id)
  \/ OnClearAll

\* Captures in both tool modes and the repaints of the overlay (no label is
\* asked for in pen mode; in point mode the prompt is answered or dismissed).
PenNext ==
  \/ \E m \in {"point", "pen"} : OnModeChange(m)
  \/ \E e \in PointerPositions, text \in {"X", Null} : HandleStart(e, text)
  \/ \E e \in PointerPositions : HandleMove(e)
  \/ HandleEnd
  \/ ResizeCanvas

\* The archive session: videos, notes, point captures, save to disk, page
\* reload and load from disk.
ArchiveNext ==
  \/ \E f \in VideoFiles : HandleVideoUpload(f)
  \/ OnReset
  \/ \E t \in NotesTexts : SetNotes(t)
  \/ \E e \in PointerPositions, text \in {"X", Null} : HandleStart(e, text)
  \/ SaveAnalysis
  \/ \E k \in ZipChoices : HandleZipUpload(k)
  \/ ZipLoaded
  \/ ZipJsonRead
  \/ ZipVideoRead

ArchiveSpec == Init /\ [][ArchiveNext]_vars

\* The clip session: one video, point-mode capture, clip playback.
Next ==
  \/ HandleVideoUpload(VideoA)
  \/ OnReset
  \/ PlaybackNext
  \/ ClipNext

Spec == Init /\ [][Next]_vars

\* The overlay session: one video, playback, pen strokes and point captures,
\* the repaints of the canvas.
OverlayNext ==
  \/ HandleVideoUpload(VideoA)
  \/ OnReset
  \/ VideoAdvance
  \/ VideoEnded
  \/ HandleTimeUpdate
  \/ PlaySyncEffect
  \/ TogglePlay
  \/ PenNext

OverlaySpec == Init /\ [][OverlayNext]_vars

\* The capture session: one video, captures in both tool modes, and clip
\* playback on top of them.
CaptureNext ==
  \/ HandleVideoUpload(VideoA)
  \/ ClockTick
  \/ SeekEffect
  \/ PlaySyncEffect
  \/ \E m \in {"point", "pen"} : OnModeChange(m)
  \/ \E e \in PointerPositions, text \in PromptAnswers : HandleStart(e, text)
  \/ \E e \in PointerPositions : HandleMove(e)
  \/ HandleEnd
  \/ \E i \in DOMAIN clips : PlayClip(clips[i])
  \/ StopClip
  \/ \E t \in timers : TimerFire(t)
  \/ \E i \in DOMAIN clips : OnDeleteClip(clips[i].id)
  \/ \E i \in DOMAIN annotations : OnDeleteAnnotation(annotations[i].id)

CaptureSpec == Init /\ [][CaptureNext]_vars

\* The pen session: one (short) video playing, the brush settings, strokes.
PenSessionNext ==
  \/ HandleVideoUpload(VideoB)
  \/ TogglePlay
  \/ PlaySyncEffect
  \/ VideoAdvance
  \/ \E m \in {"point", "pen"} : OnModeChange(m)
  \/ \E c \in BrushColors : SetBrushColor(c)
  \/ \E n \in BrushSizes : SetBrushSize(n)
  \/ \E e \in PointerPositions : HandleStart(e, Null)
  \/ \E e \in PointerPositions : HandleMove(e)
  \/ HandleEnd

PenSpec == Init /\ [][PenSessionNext]_vars

\* The armed auto-stop timer runs its callback.
AutoStop == \E t \in timers : TimerFire(t)

\* The clip playback session: one (short) video, point captures, clip
\* playback with manual play/pause, the video running to its end, clear-all
\* and deletions.
LiveNext ==
  \/ HandleVideoUpload(VideoB)
  \/ ClockTick
  \/ VideoAdvance
  \/ VideoEnded
  \/ SeekEffect
  \/ PlaySyncEffect
  \/ TogglePlay
  \/ \E e \in PointerPositions : HandleStart(e, "X")
  \/ \E i \in DOMAIN clips : PlayClip(clips[i])
  \/ StopClip
  \/ AutoStop
  \/ \E i \in DOMAIN clips : OnDeleteClip(clips[i].id)
  \/ OnClearAll

\* React runs the pending effects after every commit, and the event loop runs
\* the callback of an armed timer once it is due, however many other events
\* come in between.
LiveSpec ==
  /\ Init /\ [][LiveNext]_vars
  /\ WF_vars(SeekEffect) /\ WF_vars(PlaySyncEffect)
  /\ SF_vars(AutoStop)


\* =================================================================== claims
ClipIds(cs) == {cs[i].id : i \in DOMAIN cs}
LastOf(seq) == seq[Len(seq)]

\* C3 (as claimed): a point-mode capture with a non-empty label at video time T
\* appends exactly one Annotation and one Clip sharing an id, the clip running
\* from T to min(T + 2 s, D), D the duration of the loaded video, at speed 0.5
\* and with the annotation's position - also before the first time update.
C3_Claim ==
  [][(lastHandler' = "HandleStart" /\ annotations' # annotations) =>
       /\ Len(annotations') = Len(annotations) + 1
       /\ Len(clips') = Len(clips) + 1
       /\ SubSeq(annotations', 1, Len(annotations)) = annotations
       /\ SubSeq(clips', 1, Len(clips)) = clips
       /\ LastOf(annotations').id = LastOf(clips').id
       /\ LastOf(annotations').time = vCurrentTime
       /\ LastOf(clips').startTime = vCurrentTime
       /\ LastOf(clips').endTime = Min(vCurrentTime + ClipWindow, VideoDuration)
       /\ LastOf(clips').speed = ClipSpeed
       /\ LastOf(clips').x = LastOf(annotations').x
       /\ LastOf(clips').y = LastOf(annotations').y]_vars

\* C4 (as claimed): every stored clip has startTime <= endTime <= duration of
\* the loaded video, whenever it was captured.
C4_Claim ==
  \A i \in DOMAIN clips :
    /\ clips[i].startTime <= clips[i].endTime
    /\ clips[i].endTime <= VideoDuration

\* C1: when the archive produced by Save from store S = (notes, drawings,
\* annotations, clips) and video V is loaded with Load Analysis, then once
\* the load has completed the store equals S and the loaded video is V.
C1_Claim ==
  (/\ lastHandler \in {"ZipLoaded", "ZipJsonRead", "ZipVideoRead"}
   /\ zipLoad.pc = "done"
   /\ saved # <<>> /\ zipLoad.zip = saved[1]) =>
    /\ notes = savedFrom[1].notes
    /\ drawings = savedFrom[1].drawings
    /\ annotations = savedFrom[1].annotations
    /\ clips = savedFrom[1].clips
    /\ videoFile = savedFrom[1].videoFile

\* The archive being loaded has a structural error: it cannot be decoded, it
\* has no analysis_data.json entry, or that entry is not JSON.
StructuralError(zip) ==
  \/ ~zip.ok
  \/ ~ZipHas(zip, JsonEntryName)
  \/ JsonParseThrows(ZipFile(zip, JsonEntryName).text)

\* The steps of one Load Analysis call.
LoadSteps == {"HandleZipUpload", "ZipLoaded", "ZipJsonRead", "ZipVideoRead"}

\* C11: a load that hits a structural error (undecodable archive, missing
\* analysis_data.json entry, entry that is not JSON) ends with a failure
\* notice shown to the user.
C11_Claim ==
  (/\ lastHandler \in {"ZipLoaded", "ZipJsonRead"}
   /\ zipLoad.pc = "done"
   /\ StructuralError(zipLoad.zip)) => notice = FailedNotice

\* C12: no step of a load of an archive with a structural error changes
\* notes, drawings, annotations, clips or the loaded video (source, file
\* name, file).
C12_Step ==
  (lastHandler' \in LoadSteps /\ StructuralError(zipLoad'.zip)) =>
    /\ notes' = notes /\ drawings' = drawings
    /\ annotations' = annotations /\ clips' = clips
    /\ videoSrc' = videoSrc /\ videoFileName' = videoFileName /\ videoFile' = videoFile
C12_Theorem == [][C12_Step]_vars

\* C12 witness: a load that failed on malformed JSON has ended with the
\* store, filled before, still filled.
C12_Witness ==
  /\ lastHandler = "ZipJsonRead"
  /\ zipLoad.pc = "done" /\ zipLoad.zip = BadJsonZip
  /\ notice = FailedNotice
  /\ notes # "" /\ annotations # <<>> /\ clips # <<>>

\* C13: when the JSON entry is valid and names a video the archive lacks,
\* the load applies the archive's notes, drawings, annotations and clips,
\* loads no video, and shows a notice that is not the generic failure one.
C13_Step ==
  /\ (lastHandler' = "ZipJsonRead" /\ ~StructuralError(zipLoad.zip)) =>
       LET data == JsonParse(ZipFile(zipLoad.zip, JsonEntryName).text)
       IN /\ notes' = data.notes /\ drawings' = data.drawings
          /\ annotations' = data.annotations /\ clips' = data.clips
          /\ (Truthy(data.primaryVideoFileName) /\ ~ZipHas(zipLoad.zip, data.primaryVideoFileName))
               => zipLoad'.pc = "readVideo"
  /\ (/\ lastHandler' = "ZipVideoRead"
      /\ ~ZipHas(zipLoad.zip,
                 JsonParse(ZipFile(zipLoad.zip, JsonEntryName).text).primaryVideoFileName)) =>
       /\ UNCHANGED <<notes, drawings, annotations, clips>>
       /\ UNCHANGED <<videoSrc, videoFileName, videoFile>>
       /\ notice' # Null /\ notice' # FailedNotice
C13_Theorem == [][C13_Step]_vars

\* C13 witness: the load of an archive without its video has ended: the
\* store holds the archive's data, no video is loaded, the notice is shown.
C13_Witness ==
  /\ lastHandler = "ZipVideoRead"
  /\ zipLoad.pc = "done" /\ zipLoad.zip = MissingVideoZip
  /\ notes = SampleData.notes /\ annotations = SampleData.annotations
  /\ clips = SampleData.clips /\ drawings = SampleData.drawings
  /\ videoSrc = NoSrc
  /\ notice = MissingVideoNotice

\* C14: the import is atomic: a step of a load that does not complete it
\* changes neither the store nor the loaded video, so no state with only a
\* part of the imported state applied is observable.
C14_Claim ==
  [][(lastHandler' \in LoadSteps /\ zipLoad'.pc # "done") =>
       /\ UNCHANGED <<notes, drawings, annotations, clips>>
       /\ UNCHANGED <<videoSrc, videoFileName, videoFile>>]_vars

\* C2: starting clip A while clip B is active leaves A the one active clip
\* and cancels B's auto-stop timer: the only timer pending afterwards is the
\* one just armed for A; a timer that fires is always the active clip's own;
\* and the page leaves Active only by that timer, an explicit stop, a delete
\* or a page reload.
C2_Step ==
  /\ (lastHandler' = "PlayClip" /\ activeClipId # Null) =>
       /\ activeClipId' # Null /\ activeClipId' # activeClipId
       /\ activeClipId' \in ClipIds(clips')
       /\ \A t \in timers : t \notin timers'
       /\ Cardinality(timers') = 1
       /\ \A t \in timers' : t.clip = activeClipId' /\ t.id = clipTimeoutRef'
  /\ lastHandler' = "TimerFire" =>
       \A t \in timers \ timers' : t.clip = activeClipId /\ t.id = clipTimeoutRef
  /\ (activeClipId # Null /\ activeClipId' = Null) =>
       lastHandler' \in {"TimerFire", "StopClip", "OnDeleteClip", "OnReset"}
C2_Theorem == [][C2_Step]_vars

\* C2 witness: clip A was started while another clip B was active, and the
\* only pending timer is A's.
C2_Witness ==
  /\ lastHandler = "PlayClip"
  /\ activeBefore # Null /\ activeBefore # activeClipId
  /\ activeBefore \in ClipIds(clips) /\ activeClipId \in ClipIds(clips)
  /\ timers = {t \in timers : t.clip = activeClipId}
  /\ Cardinality(timers) = 1

\* C5: deleting the active clip ends in Idle (no timer pending, no active
\* clip, paused, rate 1.0, zoom at identity) with the clip removed; deleting
\* another clip removes it and leaves the active clip, the timer, the play
\* state and the rate alone.
C5_Step ==
  lastHandler' = "OnDeleteClip" =>
    \E id \in ClipIds(clips) :
      /\ clips' = SelectSeq(clips, LAMBDA c : c.id # id)
      /\ IF id = activeClipId
         THEN /\ timers' = {}
              /\ activeClipId' = Null
              /\ isPlaying' = FALSE
              /\ playbackRate' = NormalRate
              /\ TransformStyle'.scale = IdentityScale
         ELSE /\ activeClipId' = activeClipId
              /\ timers' = timers /\ clipTimeoutRef' = clipTimeoutRef
              /\ isPlaying' = isPlaying
              /\ playbackRate' = playbackRate
C5_Theorem == [][C5_Step]_vars

\* C5 witness: the clip that was playing (zoomed, slowed, timer armed) has
\* just been deleted.
C5_Witness ==
  /\ lastHandler = "OnDeleteClip"
  /\ activeBefore # Null /\ activeBefore \notin ClipIds(clips)
  /\ activeClipId = Null /\ timers = {} /\ clipTimeoutRef # NoTimer
  /\ clips # <<>>

\* C8: playClip(clip) makes clip the active one, requests a seek to its
\* startTime, sets the rate to its speed, starts playback and leaves exactly
\* one timer armed, of (endTime - startTime) / speed seconds (delay in ms,
\* times in half seconds, speed in quarters: delay * speed = 2000 * length);
\* the next step is the player consuming the request: the video is moved to
\* the requested position and the slot is empty again.
C8_Step ==
  /\ lastHandler' = "PlayClip" =>
       \E i \in DOMAIN clips :
         /\ activeClipId' = clips[i].id
         /\ seekTimestamp' = clips[i].startTime
         /\ playbackRate' = clips[i].speed
         /\ isPlaying' = TRUE
         /\ Cardinality(timers') = 1
         /\ \A t \in timers' :
              /\ t \notin timers
              /\ t.delay * clips[i].speed = 2000 * (clips[i].endTime - clips[i].startTime)
  /\ lastHandler = "PlayClip" =>
       /\ lastHandler' = "SeekEffect"
       /\ vCurrentTime' = seekTimestamp
       /\ seekTimestamp' = NoSeek
C8_Theorem == [][C8_Step]_vars

\* C8 witness: a 2 s clip at speed 0.5 is being played: the seek was consumed
\* and its timer of 4000 ms is armed.
C8_Witness ==
  /\ lastHandler = "SeekEffect"
  /\ ActiveClip # NoClip
  /\ ActiveClip.endTime - ActiveClip.startTime = ClipWindow
  /\ vCurrentTime = ActiveClip.startTime
  /\ seekTimestamp = NoSeek
  /\ \E t \in timers : t.delay = 4000 /\ t.id = clipTimeoutRef

\* C9: the Active -> Idle transition, by the Stop button or by the timer,
\* ends with no timer pending, no active clip, paused, rate 1.0, and leaves
\* notes, drawings, annotations and clips as they were.
C9_Step ==
  lastHandler' \in {"StopClip", "TimerFire"} =>
    /\ activeClipId # Null
    /\ timers' = {}
    /\ activeClipId' = Null
    /\ isPlaying' = FALSE
    /\ playbackRate' = NormalRate
    /\ notes' = notes /\ drawings' = drawings
    /\ annotations' = annotations /\ clips' = clips
C9_Theorem == [][C9_Step]_vars

\* C9 witness: the auto-stop timer has just fired for a playing clip.
C9_Witness ==
  /\ lastHandler = "TimerFire"
  /\ activeBefore \in ClipIds(clips)
  /\ activeClipId = Null /\ timers = {} /\ ~isPlaying /\ playbackRate = NormalRate

\* C10: at most one auto-stop timer is pending, one is pending exactly when
\* a clip is active, and it is the timer clipTimeoutRef names, armed for the
\* active clip.
C10_Invariant ==
  /\ Cardinality(timers) <= 1
  /\ (timers # {}) <=> (activeClipId # Null)
  /\ \A t \in timers : t.id = clipTimeoutRef /\ t.clip = activeClipId

\* C10 witness: an explicit stop has cancelled the pending timer of the clip
\* that was active.
C10_Witness ==
  /\ lastHandler = "StopClip"
  /\ activeBefore # Null
  /\ clipTimeoutRef # NoTimer
  /\ timers = {} /\ activeClipId = Null

\* The drawings (by index) with a stroke on the canvas.
DrawnOnCanvas == {canvas[k].of : k \in DOMAIN canvas} \ {0}

\* C6: a stored annotation's marker is rendered if and only if its time is
\* strictly less than 0.5 s from the playback time; at exactly 0.5 s it is
\* not rendered. Stated for the render that follows a time update.
C6_Claim ==
  lastHandler = "HandleTimeUpdate" =>
    \A i \in DOMAIN annotations :
      MarkerRendered(annotations[i], vCurrentTime)
        <=> Abs(annotations[i].time - vCurrentTime) < Tolerance

\* After a repaint of the overlay (time update, pointer move while drawing,
\* resize) a stored drawing has a stroke on the canvas if and only if its
\* time is strictly less than 0.5 s from the video position.
C7_Drawings ==
  lastHandler \in {"HandleTimeUpdate", "HandleMove", "ResizeCanvas"} =>
    \A i \in DOMAIN drawings :
      i \in DrawnOnCanvas <=> Abs(drawings[i].time - vCurrentTime) < Tolerance

\* After a time update (canvas repainted, markers re-rendered) a drawing and
\* an annotation captured at the same video time are shown together or not
\* at all.
C7_SameBoundary ==
  lastHandler = "HandleTimeUpdate" =>
    \A i \in DOMAIN drawings, j \in DOMAIN annotations :
      drawings[i].time = annotations[j].time =>
        (i \in DrawnOnCanvas <=> MarkerRendered(annotations[j], vCurrentTime))

\* C7: the overlay repaint draws a stored drawing's path if and only if the
\* drawing's time is strictly less than 0.5 s from the playback time, and the
\* same boundary applies to drawings as to annotation markers.
C7_Claim == C7_Drawings /\ C7_SameBoundary

\* C15: while a clip is Active no pointer event on the canvas (start, move,
\* end or leave, also the end of a stroke begun before the clip was started)
\* adds an annotation, a clip or a drawing.
C15_Claim ==
  [][(ActiveClip # NoClip /\ lastHandler' \in {"HandleStart", "HandleMove", "HandleEnd"}) =>
       UNCHANGED <<annotations, clips, drawings>>]_vars

\* C16: a point-mode capture either leaves the store as it was (the prompt
\* gave no label) or adds exactly one annotation and one clip that share
\* their id and carry a non-empty label; no record with an empty or absent
\* label exists, and never an annotation without its clip or a clip without
\* its annotation; drawings and notes are unchanged.
C16_Step ==
  (lastHandler' = "HandleStart" /\ toolMode = "point") =>
    /\ notes' = notes /\ drawings' = drawings
    /\ \/ annotations' = annotations /\ clips' = clips
       \/ /\ Len(annotations') = Len(annotations) + 1
          /\ Len(clips') = Len(clips) + 1
          /\ SubSeq(annotations', 1, Len(annotations)) = annotations
          /\ SubSeq(clips', 1, Len(clips)) = clips
          /\ LastOf(annotations').id = LastOf(clips').id
          /\ LastOf(annotations').text \notin {"", Null}
          /\ LastOf(clips').name = LastOf(annotations').text
C16_Theorem == [][C16_Step]_vars

\* C16 witness: a point-mode click on an empty store whose prompt gave no
\* label: nothing was created.
C16_Witness ==
  /\ lastHandler = "HandleStart"
  /\ MainScreen /\ toolMode = "point" /\ ~isDrawing
  /\ annotations = <<>> /\ clips = <<>> /\ drawings = <<>> /\ notes = ""

\* C17: in pen mode the end of the interaction commits exactly one new
\* drawing if and only if the accumulated path has more than one point; the
\* drawing carries the current brush color, brush size and video time and
\* the accumulated points in order, only the first flagged isStart; with at
\* most one point nothing is added; either way the path in progress is
\* emptied and drawing stops.
C17_Step ==
  lastHandler' = "HandleEnd" =>
    /\ toolMode = "pen" /\ isDrawing
    /\ isDrawing' = FALSE /\ currentPath' = <<>>
    /\ UNCHANGED <<annotations, clips, notes>>
    /\ IF Len(currentPath) > 1
       THEN /\ Len(drawings') = Len(drawings) + 1
            /\ SubSeq(drawings', 1, Len(drawings)) = drawings
            /\ LastOf(drawings').color = brushColor
            /\ LastOf(drawings').size = brushSize
            /\ LastOf(drawings').time = vCurrentTime
            /\ LastOf(drawings').path = currentPath
            /\ \A k \in DOMAIN currentPath : currentPath[k].isStart <=> k = 1
       ELSE drawings' = drawings
C17_Theorem == [][C17_Step]_vars

\* C17 witness: a two-point stroke drawn with the second color and the larger
\* brush while the video was past its start has just been committed.
C17_Witness ==
  /\ lastHandler = "HandleEnd"
  /\ ~isDrawing /\ currentPath = <<>>
  /\ drawings # <<>>
  /\ Len(LastOf(drawings).path) = 2
  /\ LastOf(drawings).color = "#0000ff" /\ brushColor = "#0000ff"
  /\ LastOf(drawings).size = DefaultBrushSize + 4 /\ brushSize = DefaultBrushSize + 4
  /\ LastOf(drawings).time = vCurrentTime /\ vCurrentTime > 0

\* No two members of the collection share an id.
UniqueIds(coll) ==
  \A i \in DOMAIN coll, j \in DOMAIN coll : coll[i].id = coll[j].id => i = j

\* C18: in every reachable state the ids are unique within annotations,
\* within clips and within drawings.
C18_Claim == UniqueIds(annotations) /\ UniqueIds(clips) /\ UniqueIds(drawings)

\* C19: whenever a clip is active, the page eventually returns to Idle
\* (no active clip, rate 1.0, paused), whatever play/pause toggles, end of
\* video, clear-all or deletions of other clips come in between.
C19_Theorem ==
  (activeClipId # Null) ~>
     (activeClipId = Null /\ playbackRate = NormalRate /\ ~isPlaying)

\* C19 witness: the auto-stop timer has returned the page to Idle for a clip
\* that clear-all had removed from the list while it was playing.
C19_Witness ==
  /\ lastHandler = "TimerFire"
  /\ activeBefore # Null /\ clips = <<>>
  /\ activeClipId = Null /\ playbackRate = NormalRate /\ ~isPlaying

\* C20: the video surface is scaled 2.0x, with the transform origin at the
\* active clip's stored (x, y), if and only if a clip is active
\* (activeClipId non-null), and is at identity scale if and only if none is.
C20_Claim ==
  /\ (activeClipId # Null) <=> (TransformStyle.scale = ZoomScale)
  /\ (activeClipId = Null) <=> (TransformStyle.scale = IdentityScale)
  /\ (activeClipId # Null) =>
       \E i \in DOMAIN clips :
         /\ clips[i].id = activeClipId
         /\ TransformStyle.origin = <<clips[i].x, clips[i].y>>

\* C21: whenever activeClipId is non-null the clips collection holds a clip
\* with that id.
C21_Claim ==
  activeClipId # Null => \E i \in DOMAIN clips : clips[i].id = activeClipId

\* C22: while a clip is active the playback rate is the speed of the clip
\* that was started: playClip sets it to that clip's speed, no other step
\* taken while a clip is active changes it (the speed select is disabled),
\* and every step from Active to Idle sets it to 1.0.
C22_Step ==
  /\ lastHandler' = "PlayClip" =>
       \E i \in DOMAIN clips :
         clips[i].id = activeClipId' /\ playbackRate' = clips[i].speed
  /\ (activeClipId # Null /\ activeClipId' # Null /\ lastHandler' # "PlayClip") =>
       playbackRate' = playbackRate
  /\ (activeClipId # Null /\ activeClipId' = Null) => playbackRate' = NormalRate
C22_Theorem ==
  /\ [](ActiveClip # NoClip => playbackRate = ActiveClip.speed)
  /\ [][C22_Step]_vars

\* C22 witness: the user has paused by hand while a clip is active; the rate
\* is still the clip's speed and the timer is still armed.
C22_Witness ==
  /\ lastHandler = "TogglePlay" /\ ~isPlaying
  /\ ActiveClip # NoClip /\ activeBefore = activeClipId
  /\ playbackRate = ActiveClip.speed /\ playbackRate # NormalRate
  /\ timers # {}

====
